---- MODULE Spec2Model ----
(***************************************************************************)
(* A model of vpcctl.py: a CLI that builds VPC-like topologies out of      *)
(* Linux bridges, network namespaces, veth pairs and iptables rules.       *)
(*                                                                         *)
(* The host's networking configuration is the only state the tool has;     *)
(* every invocation is a short sequence of shell commands, each issued by  *)
(* run(cmd, check).  Names and addresses are modelled as sequences of      *)
(* one-character strings so that the f-string building, the prefix tests,  *)
(* the grep -w probes and the slicing of the source are computed as the    *)
(* source computes them.                                                   *)
(***************************************************************************)
EXTENDS Integers, Sequences, FiniteSets, TLC

(***************************************************************************)
(* Text helpers                                                            *)
(***************************************************************************)
Root == <<>>          \* the host's own (initial) network namespace
None == <<>>          \* "no master", "no argument"

DASH == <<"-">>
BrSuffix == <<"-", "b", "r">>
VethPrefix == <<"v", "e", "t", "h", "-">>
NsSuffix == <<"-", "n", "s">>
PeerPrefix == <<"p", "e", "e", "r", "-">>
End0 == <<"-", "0">>
End1 == <<"-", "1">>

\* the kernel's limit on an interface name (IFNAMSIZ - 1)
MaxIfNameLen == 15

\* str.startswith
StartsWith(s, p) == Len(p) <= Len(s) /\ SubSeq(s, 1, Len(p)) = p

\* the characters that separate words for grep -w (everything else the model
\* uses is a letter or a digit)
IsWordChar(c) == c \notin {"-", " ", "(", ")", ":", ".", "/"}

\* `... | grep -w pat` followed by `pat in stdout`, for one line of output
WordMatch(pat, text) ==
    \E i \in 1..(Len(text) - Len(pat) + 1) :
        /\ SubSeq(text, i, i + Len(pat) - 1) = pat
        /\ (i = 1 \/ ~IsWordChar(text[i - 1]))
        /\ (i + Len(pat) - 1 = Len(text) \/ ~IsWordChar(text[i + Len(pat)]))

\* position of the first c in s, 0 when there is none
IndexOf(s, c) ==
    IF \E i \in 1..Len(s) : s[i] = c
    THEN CHOOSE i \in 1..Len(s) : s[i] = c /\ \A j \in 1..(i - 1) : s[j] # c
    ELSE 0

\* s.split(sep)[0]
SplitFirst(s, sep) ==
    IF IndexOf(s, sep) = 0 THEN s ELSE SubSeq(s, 1, IndexOf(s, sep) - 1)

\* what follows the first sep in s (empty when there is none)
SplitRest(s, sep) ==
    IF IndexOf(s, sep) = 0 THEN <<>> ELSE SubSeq(s, IndexOf(s, sep) + 1, Len(s))

RECURSIVE Fields(_, _)
\* s.split(sep)
Fields(s, sep) ==
    IF IndexOf(s, sep) = 0 THEN <<s>>
    ELSE <<SplitFirst(s, sep)>> \o Fields(SplitRest(s, sep), sep)

Digits == <<"0", "1", "2", "3", "4", "5", "6", "7", "8", "9">>
IsDigit(c) == \E i \in 1..10 : Digits[i] = c
DigitVal(c) == (CHOOSE i \in 1..10 : Digits[i] = c) - 1

RECURSIVE ToNat(_)
ToNat(s) ==
    IF s = <<>> THEN 0
    ELSE 10 * ToNat(SubSeq(s, 1, Len(s) - 1)) + DigitVal(s[Len(s)])

IsNumber(s) == Len(s) >= 1 /\ Len(s) <= 3 /\ \A i \in 1..Len(s) : IsDigit(s[i])

\* a dotted quad the ip tool accepts
ValidIp(s) ==
    LET f == Fields(s, ".")
    IN  /\ Len(f) = 4
        /\ \A i \in 1..4 : IsNumber(f[i]) /\ ToNat(f[i]) <= 255

IpInt(s) ==
    LET f == Fields(s, ".")
    IN  ((ToNat(f[1]) * 256 + ToNat(f[2])) * 256 + ToNat(f[3])) * 256 + ToNat(f[4])

\* the network an address belongs to under a prefix length
Network(ip, plen) == IpInt(ip) \div (2 ^ (32 - plen))

\* "ADDR" or "ADDR/LEN" as `ip addr add` reads it: no length means /32
AddrOf(text) == SplitFirst(text, "/")
PlenOf(text) == IF IndexOf(text, "/") = 0 THEN 32 ELSE ToNat(SplitRest(text, "/"))
ValidAddrArg(text) ==
    /\ ValidIp(AddrOf(text))
    /\ (IndexOf(text, "/") # 0 => IsNumber(SplitRest(text, "/")) /\ PlenOf(text) <= 32)


RECURSIVE FmtNat(_)
\* str(n) of a non-negative integer, as an f-string formats it
FmtNat(n) ==
    IF n < 10 THEN <<Digits[n + 1]>>
    ELSE FmtNat(n \div 10) \o <<Digits[(n % 10) + 1]>>

RECURSIVE SetToSeq(_)
\* the elements of a finite set in some fixed order
SetToSeq(S) ==
    IF S = {} THEN <<>>
    ELSE LET x == CHOOSE y \in S : TRUE IN <<x>> \o SetToSeq(S \ {x})

(***************************************************************************)
(* The names the tool derives (the f-strings of the source)                *)
(***************************************************************************)
bridge_name(vpc_name) == vpc_name \o BrSuffix
ns_name(vpc_name, subnet_name) == vpc_name \o DASH \o subnet_name
veth_host_name(ns) == VethPrefix \o ns
veth_ns_name(ns) == VethPrefix \o ns \o NsSuffix
peer0_name(vpc1, vpc2) == PeerPrefix \o vpc1 \o DASH \o vpc2 \o End0
peer1_name(vpc1, vpc2) == PeerPrefix \o vpc1 \o DASH \o vpc2 \o End1

\* cidr.split("/")[0]
base_ip_of(cidr) == SplitFirst(cidr, "/")
\* f"{base_ip[:-1]}1"
gateway_of(base_ip) == SubSeq(base_ip, 1, Len(base_ip) - 1) \o <<"1">>

(***************************************************************************)
(* The host: bridges, named network namespaces and veth pairs.             *)
(*   h.br    set of [name, up, addr]                                       *)
(*   h.ns    set of [name, nsid, rules, nat]; nsid says whether the        *)
(*           namespace has been given an id in the root namespace (it is,  *)
(*           as soon as a device is moved into it), rules is its INPUT     *)
(*           chain, nat its POSTROUTING chain of the nat table             *)
(*   h.veth  set of pairs [a, b] of ends                                   *)
(*           [name, ns, master, up, addr, route]                           *)
(***************************************************************************)
EmptyHost == [br |-> {}, ns |-> {}, veth |-> {}]

BridgeNames(h) == {b.name : b \in h.br}
NsNames(h) == {n.name : n \in h.ns}
Ends(h) == {p.a : p \in h.veth} \cup {p.b : p \in h.veth}
EndsIn(h, n) == {e \in Ends(h) : e.ns = n}
LinkNames(h, n) ==
    (IF n = Root THEN BridgeNames(h) ELSE {}) \cup {e.name : e \in EndsIn(h, n)}
Ports(h, b) == {e \in EndsIn(h, Root) : e.master = b}

ValidIfName(s) == Len(s) >= 1 /\ Len(s) <= MaxIfNameLen

NewEnd(name) ==
    [name |-> name, ns |-> Root, master |-> None, up |-> FALSE, addr |-> {}, route |-> {}]

\* the host with F applied to every veth end
MapEnds(h, F(_)) == [h EXCEPT !.veth = {[a |-> F(p.a), b |-> F(p.b)] : p \in h.veth}]

\* the suffix `ip netns list` prints after a namespace that has an id; the
\* number itself is not tracked, only that the suffix is there
IdSuffix == <<" ", "(", "i", "d", ":", " ", "0", ")">>

\* the lines of `ip netns list`
NetnsLines(h) == {IF n.nsid THEN n.name \o IdSuffix ELSE n.name : n \in h.ns}

\* the names in the output of `brctl show`: every bridge and every port
BrctlTokens(h) == BridgeNames(h) \cup {e.name : e \in {x \in EndsIn(h, Root) : x.master # None}}

\* whether /bin/sh parses `... {text}` as a simple command
ShellSafe(text) == \A i \in 1..Len(text) : text[i] \notin {"(", ")"}

\* removing a namespace destroys the veth ends inside it, and so their pairs
RemoveNs(h, name) ==
    [h EXCEPT !.ns = {n \in h.ns : n.name # name},
              !.veth = {p \in h.veth : p.a.ns # name /\ p.b.ns # name}]

\* removing a device of the root namespace: a bridge releases its ports, a
\* veth end takes its peer with it
RemoveLink(h, name) ==
    IF name \in BridgeNames(h)
    THEN LET Release(e) == IF e.ns = Root /\ e.master = name
                           THEN [e EXCEPT !.master = None] ELSE e
         IN  [MapEnds(h, Release) EXCEPT !.br = {b \in h.br : b.name # name}]
    ELSE [h EXCEPT !.veth = {p \in h.veth :
                                ~(p.a.ns = Root /\ p.a.name = name)
                                /\ ~(p.b.ns = Root /\ p.b.name = name)}]

SetUp(h, n, name, v) ==
    LET F(e) == IF e.ns = n /\ e.name = name THEN [e EXCEPT !.up = v] ELSE e
    IN  [MapEnds(h, F) EXCEPT
            !.br = {IF n = Root /\ b.name = name THEN [b EXCEPT !.up = v] ELSE b : b \in h.br}]

\* the addresses of a namespace and its default routes
LocalAddrs(h, n) == UNION {e.addr : e \in EndsIn(h, n)}
DefaultRoutes(h, n) == UNION {e.route : e \in EndsIn(h, n)}

\* a gateway is accepted when it lies in the network of an address of an
\* interface that is up and is not itself an address of the namespace
Reaches(e, gw) ==
    /\ e.up
    /\ \E a \in e.addr : Network(a.ip, a.plen) = Network(gw, a.plen)


(***************************************************************************)
(* The shell commands the tool issues, as records [op, x, y, z, w], and    *)
(* what each does to the host.                                             *)
(***************************************************************************)
Cmd(op, x, y, z, w) == [op |-> op, x |-> x, y |-> y, z |-> z, w |-> w]

link_add_bridge(b) == Cmd("ip link add name X type bridge", b, None, None, None)
link_set_up(x) == Cmd("ip link set X up", x, None, None, None)
link_set_down(x) == Cmd("ip link set X down", x, None, None, None)
link_del(x) == Cmd("ip link del X", x, None, None, None)
netns_add(n) == Cmd("ip netns add X", n, None, None, None)
netns_delete(line) == Cmd("ip netns delete X", line, None, None, None)
veth_add(a, b) == Cmd("ip link add X type veth peer name Y", a, b, None, None)
link_set_master(x, b) == Cmd("ip link set X master Y", x, b, None, None)
link_set_netns(x, n) == Cmd("ip link set X netns Y", x, n, None, None)
ns_link_set_up(n, x) == Cmd("ip netns exec X ip link set Y up", n, x, None, None)
ns_addr_add(n, ip, dev) == Cmd("ip netns exec X ip addr add Y dev Z", n, ip, dev, None)
ns_route_add(n, gw) == Cmd("ip netns exec X ip route add default via Y", n, gw, None, None)
ns_iptables(n, proto, port, target) ==
    Cmd("ip netns exec X iptables -A INPUT -p Y --dport Z -j W", n, proto, port, target)
ns_iptables_nat(n, iface) ==
    Cmd("ip netns exec X iptables -t nat -A POSTROUTING -o Y -j MASQUERADE",
        n, iface, None, None)
netns_delete_all == Cmd("ip netns list | xargs -n1 ip netns delete", None, None, None, None)
bridge_delete_all ==
    Cmd("brctl show | tail -n +2 | awk '{print $1}' | xargs -n1 ip link del",
        None, None, None, None)

Outcome(ok, after, before) == [ok |-> ok, h |-> IF ok THEN after ELSE before]

ACCEPT == <<"A", "C", "C", "E", "P", "T">>
DROP == <<"D", "R", "O", "P">>
Tcp == <<"t", "c", "p">>
Udp == <<"u", "d", "p">>

\* iptables -A INPUT, had it been written to replace the chain
AppendRule_Replace(h, name, rule) ==
    [h EXCEPT !.ns = {IF n.name = name THEN [n EXCEPT !.rules = <<rule>>] ELSE n
                      : n \in h.ns}]

\* iptables -A INPUT inside a namespace: the rule goes to the end of the chain
AppendRule(h, name, rule) ==
    [h EXCEPT !.ns = {IF n.name = name THEN [n EXCEPT !.rules = Append(@, rule)] ELSE n
                      : n \in h.ns}]

\* the same pipeline, had it handed each line of the listing to
\* `ip netns delete` whole (as delete_vpc does): a line with an id suffix
\* removes nothing
NetnsDeleteAll_PerLine(h) ==
    [ok |-> h.ns # {} /\ \A n \in h.ns : ~n.nsid,
     h |-> [h EXCEPT !.ns = {n \in h.ns : n.nsid},
                     !.veth = {p \in h.veth :
                                 /\ p.a.ns \in {Root} \cup {n.name : n \in {m \in h.ns : m.nsid}}
                                 /\ p.b.ns \in {Root} \cup {n.name : n \in {m \in h.ns : m.nsid}}}]]

\* `ip netns list | xargs -n1 ip netns delete`: xargs splits the listing at
\* blanks, so every name reaches `ip netns delete` as a word of its own and
\* every namespace is removed; the pieces of an id suffix, or an empty
\* listing, make xargs exit non-zero
NetnsDeleteAll(h) ==
    [ok |-> h.ns # {} /\ \A n \in h.ns : ~n.nsid,
     h |-> [h EXCEPT !.ns = {},
                     !.veth = {p \in h.veth : p.a.ns = Root /\ p.b.ns = Root}]]

\* the one outcome of a command whose result the host's state determines
Exec(c, h) ==
    CASE c.op = "ip link add name X type bridge" ->
            Outcome(ValidIfName(c.x) /\ c.x \notin LinkNames(h, Root),
                    [h EXCEPT !.br = @ \cup {[name |-> c.x, up |-> FALSE, addr |-> {}]}], h)
      [] c.op = "ip link set X up" ->
            Outcome(c.x \in LinkNames(h, Root), SetUp(h, Root, c.x, TRUE), h)
      [] c.op = "ip link set X down" ->
            Outcome(c.x \in LinkNames(h, Root), SetUp(h, Root, c.x, FALSE), h)
      [] c.op = "ip link del X" ->
            Outcome(c.x \in LinkNames(h, Root), RemoveLink(h, c.x), h)
      [] c.op = "ip netns add X" ->
            Outcome(Len(c.x) >= 1 /\ c.x \notin NsNames(h),
                    [h EXCEPT !.ns = @ \cup {[name |-> c.x, nsid |-> FALSE, rules |-> <<>>,
                                             nat |-> <<>>]}],
                    h)
      [] c.op = "ip netns delete X" ->
            Outcome(ShellSafe(c.x) /\ c.x \in NsNames(h), RemoveNs(h, c.x), h)
      [] c.op = "ip link add X type veth peer name Y" ->
            Outcome(/\ ValidIfName(c.x) /\ ValidIfName(c.y) /\ c.x # c.y
                    /\ c.x \notin LinkNames(h, Root) /\ c.y \notin LinkNames(h, Root),
                    [h EXCEPT !.veth = @ \cup {[a |-> NewEnd(c.x), b |-> NewEnd(c.y)]}], h)
      [] c.op = "ip link set X master Y" ->
            LET F(e) == IF e.ns = Root /\ e.name = c.x THEN [e EXCEPT !.master = c.y] ELSE e
            IN  Outcome(c.x \in {e.name : e \in EndsIn(h, Root)} /\ c.y \in BridgeNames(h),
                        MapEnds(h, F), h)
      [] c.op = "ip link set X netns Y" ->
            LET F(e) == IF e.ns = Root /\ e.name = c.x
                        THEN [e EXCEPT !.ns = c.y, !.master = None, !.up = FALSE,
                                       !.addr = {}, !.route = {}]
                        ELSE e
                moved == MapEnds(h, F)
            IN  Outcome(/\ c.x \in {e.name : e \in EndsIn(h, Root)}
                        /\ c.y \in NsNames(h)
                        /\ c.x \notin LinkNames(h, c.y),
                        [moved EXCEPT !.ns = {IF n.name = c.y THEN [n EXCEPT !.nsid = TRUE]
                                              ELSE n : n \in h.ns}],
                        h)
      [] c.op = "ip netns exec X ip link set Y up" ->
            Outcome(c.x \in NsNames(h) /\ c.y \in LinkNames(h, c.x),
                    SetUp(h, c.x, c.y, TRUE), h)
      [] c.op = "ip netns exec X ip addr add Y dev Z" ->
            LET new == [ip |-> AddrOf(c.y), plen |-> PlenOf(c.y)]
                F(e) == IF e.ns = c.x /\ e.name = c.z THEN [e EXCEPT !.addr = @ \cup {new}]
                        ELSE e
            IN  Outcome(/\ c.x \in NsNames(h) /\ c.z \in LinkNames(h, c.x)
                        /\ ValidAddrArg(c.y)
                        /\ \A e \in EndsIn(h, c.x) : e.name = c.z => new \notin e.addr,
                        MapEnds(h, F), h)
      [] c.op = "ip netns exec X ip route add default via Y" ->
            LET via == {e \in EndsIn(h, c.x) : Reaches(e, c.y)}
                dev == CHOOSE e \in via : TRUE
                F(e) == IF e = dev THEN [e EXCEPT !.route = @ \cup {c.y}] ELSE e
            IN  Outcome(/\ c.x \in NsNames(h) /\ ValidIp(c.y)
                        /\ DefaultRoutes(h, c.x) = {}
                        /\ c.y \notin {a.ip : a \in LocalAddrs(h, c.x)}
                        /\ via # {},
                        MapEnds(h, F), h)
      [] c.op = "ip netns exec X iptables -A INPUT -p Y --dport Z -j W" ->
            Outcome(c.x \in NsNames(h) /\ c.y \in {Tcp, Udp} /\ IsNumber(c.z),
                    AppendRule(h, c.x, [proto |-> c.y, port |-> c.z, target |-> c.w]), h)
      [] c.op = "ip netns exec X iptables -t nat -A POSTROUTING -o Y -j MASQUERADE" ->
            Outcome(c.x \in NsNames(h) /\ Len(c.y) >= 1,
                    [h EXCEPT !.ns = {IF n.name = c.x
                                      THEN [n EXCEPT !.nat = Append(@, [out |-> c.y])]
                                      ELSE n : n \in h.ns}],
                    h)
      [] c.op = "ip netns list | xargs -n1 ip netns delete" -> NetnsDeleteAll(h)

\* the first column of `brctl show` below its header, when `first` says which
\* port each bridge that has ports lists next to its name: the bridges, and
\* every other port (listed alone on a line of its own)
BrctlFirstColumn(h, first) ==
    BridgeNames(h) \cup
    {e.name : e \in {x \in EndsIn(h, Root) : x.master # None /\ first[x.master] # x.name}}

\* `brctl show | tail -n +2 | awk '{print $1}' | xargs -n1 ip link del`: the
\* order in which brctl lists the ports of a bridge is the host's
BridgeDeleteAll(h) ==
    LET withPorts == {b \in BridgeNames(h) : Ports(h, b) # {}}
        choices == {f \in [withPorts -> {e.name : e \in EndsIn(h, Root)}] :
                        \A b \in withPorts : f[b] \in {e.name : e \in Ports(h, b)}}
        Gone(f) == BrctlFirstColumn(h, f)
    IN  {[ok |-> /\ h.br # {}
                 /\ \A p \in h.veth : ~(p.a.name \in Gone(f) /\ p.b.name \in Gone(f)
                                        /\ p.a.ns = Root /\ p.b.ns = Root),
          h |-> [h EXCEPT !.br = {},
                          !.veth = {p \in MapEnds(h, LAMBDA e :
                                                  IF e.ns = Root THEN [e EXCEPT !.master = None]
                                                  ELSE e).veth :
                                      ~(p.a.ns = Root /\ p.a.name \in Gone(f))
                                      /\ ~(p.b.ns = Root /\ p.b.name \in Gone(f))}]]
         : f \in choices}

\* every outcome a command can have on host h
ExecSet(c, h) ==
    IF c.op = "brctl show | tail -n +2 | awk '{print $1}' | xargs -n1 ip link del"
    THEN BridgeDeleteAll(h)
    ELSE {Exec(c, h)}


(***************************************************************************)
(* Inputs                                                                  *)
(***************************************************************************)
\* how many invocations of the tool a behaviour holds
MaxInvocations == 5

Allow == <<"a", "l", "l", "o", "w">>
Deny == <<"d", "e", "n", "y">>
Private == <<"p", "r", "i", "v", "a", "t", "e">>

VpcA == <<"a">>
VpcB == <<"b">>
VpcAA == <<"a", "-", "a">>
VpcMy == <<"m", "y", "v", "p", "c">>
SubS1 == <<"s", "1">>
SubS2 == <<"s", "2">>
SubA == <<"s", "u", "b", "n", "e", "t", "A">>
Eth0 == <<"e", "t", "h", "0">>
Cidr16 == <<"1", "0", ".", "0", ".", "0", ".", "0", "/", "1", "6">>
Cidr24 == <<"1", "0", ".", "0", ".", "1", ".", "0", "/", "2", "4">>
Cidr28 == <<"1", "0", ".", "0", ".", "1", ".", "1", "6", "/", "2", "8">>
Cidr25 == <<"1", "0", ".", "0", ".", "1", ".", "1", "2", "8", "/", "2", "5">>

\* the policy documents on disk, by path, as json.load returns them
Rule22 == [protocol |-> Tcp, port |-> 22, action |-> Allow]
Rule80 == [protocol |-> Tcp, port |-> 80, action |-> Deny]
Rule53 == [protocol |-> Udp, port |-> 53, action |-> Allow]
PolicyFiles == {"two_rules.json", "one_rule.json", "late_bad_rule.json",
                "no_subnet.json", "no_ingress.json"}
FileContent(path) ==
    CASE path = "two_rules.json" ->
            [subnet |-> ns_name(VpcA, SubS1), ingress |-> <<Rule22, Rule80>>]
      [] path = "one_rule.json" ->
            [subnet |-> ns_name(VpcA, SubS1), ingress |-> <<Rule53>>]
      [] path = "late_bad_rule.json" ->
            [subnet |-> ns_name(VpcA, SubS1),
             ingress |-> <<Rule22, [port |-> 80, action |-> Deny]>>]
      [] path = "no_subnet.json" -> [ingress |-> <<Rule22>>]
      [] path = "no_ingress.json" -> [subnet |-> ns_name(VpcA, SubS1)]

\* a command line: for each option of the parser the value parse_args gives
\* it (None, or False for the flag, when the option is not given), and under
\* `nat` the arguments of a --nat, the option configure_nat's docstring
\* names, when the command line holds one
NoArgs ==
    [create_vpc |-> None, delete_vpc |-> None, add_subnet |-> None,
     peer_vpcs |-> None, apply_policy |-> None, cleanup |-> FALSE, nat |-> None]

\* a world fixes the names a behaviour draws its command lines from, and
\* whether its command lines give one option each or any number of them
Worlds ==
    { [vpcs |-> {VpcA, VpcAA}, subnets |-> {SubS1}, cidrs |-> {Cidr24}, files |-> {},
       several |-> FALSE, uplinks |-> {}],
      [vpcs |-> {VpcA, VpcB}, subnets |-> {SubS1}, cidrs |-> {Cidr24}, files |-> {},
       several |-> FALSE, uplinks |-> {}],
      [vpcs |-> {VpcA}, subnets |-> {SubS1, SubS2}, cidrs |-> {Cidr24, Cidr28, Cidr25},
       files |-> {}, several |-> FALSE,
       uplinks |-> {}],
      [vpcs |-> {VpcMy}, subnets |-> {SubS1, SubA}, cidrs |-> {Cidr24}, files |-> {},
       several |-> FALSE, uplinks |-> {}],
      [vpcs |-> {VpcA}, subnets |-> {SubS1}, cidrs |-> {Cidr24}, files |-> PolicyFiles,
       several |-> FALSE, uplinks |-> {Eth0}],
      [vpcs |-> {VpcA}, subnets |-> {SubS1}, cidrs |-> {Cidr24}, files |-> {"one_rule.json"},
       several |-> TRUE, uplinks |-> {}] }

\* what parse_args can return for each option: None (False for the flag) when
\* the option is not given
OptionValues(w) ==
    [create_vpc |-> {None} \cup {<<v, Cidr16>> : v \in w.vpcs},
     delete_vpc |-> {None} \cup w.vpcs,
     add_subnet |-> {None} \cup {<<v, s, c, Private>> :
                                    v \in w.vpcs, s \in w.subnets, c \in w.cidrs},
     peer_vpcs |-> {None} \cup {<<v1, v2>> : v1 \in w.vpcs, v2 \in w.vpcs},
     apply_policy |-> {None} \cup {<<f>> : f \in w.files},
     cleanup |-> BOOLEAN,
     nat |-> {None} \cup {<<ns_name(v, s), u>> :
                             v \in w.vpcs, s \in w.subnets, u \in w.uplinks}]

\* how many options a command line combines (or all six of them)
MaxOptions == 2

\* how many options a command line gives
GivenCount(a) ==
    Cardinality({o \in {"create_vpc", "delete_vpc", "add_subnet", "peer_vpcs",
                        "apply_policy"} : a[o] # None})
    + (IF a.cleanup THEN 1 ELSE 0)

CommandLines(w) ==
    LET v == OptionValues(w)
        all == [create_vpc : v.create_vpc, delete_vpc : v.delete_vpc,
                add_subnet : v.add_subnet, peer_vpcs : v.peer_vpcs,
                apply_policy : v.apply_policy, cleanup : v.cleanup, nat : v.nat]
        words(a) == GivenCount(a) + (IF a.nat # None THEN 1 ELSE 0)
    IN  {a \in all : \/ words(a) <= 1
                     \/ w.several /\ (words(a) <= MaxOptions \/ GivenCount(a) = 6)}

(***************************************************************************)
(* State                                                                   *)
(***************************************************************************)
VARIABLES
    world,   \* the names this behaviour draws from
    host,    \* the host's networking configuration
    pc,      \* pc[p]: where invocation p is ("idle", "L<line>", "done")
    argv,    \* argv[p]: the parsed command line of invocation p
    rc,      \* rc[p]: the exit code of invocation p, once it is done
    log,     \* log[p]: the commands invocation p has issued through run()
    out,     \* out[p]: the messages invocation p has printed, as tags
    idx,     \* idx[p]: the rule apply_policy's loop is at
    last,    \* last[p]: the command line, exit code and log of p's previous run
    prior,   \* prior[p]: how many runs of this same command line, each with
             \* exit code 0, came immediately before this run
    ninv     \* invocations started so far

vars == <<world, host, pc, argv, rc, log, out, idx, last, prior, ninv>>

Procs == {1, 2}

Init ==
    /\ world \in Worlds
    /\ host = EmptyHost
    /\ pc = [p \in Procs |-> "idle"]
    /\ argv = [p \in Procs |-> NoArgs]
    /\ rc = [p \in Procs |-> 0]
    /\ log = [p \in Procs |-> <<>>]
    /\ out = [p \in Procs |-> <<>>]
    /\ idx = [p \in Procs |-> 0]
    /\ last = [p \in Procs |-> [argv |-> NoArgs, rc |-> 0, log |-> <<>>]]
    /\ prior = [p \in Procs |-> 0]
    /\ ninv = 0

(***************************************************************************)
(* Probes                                                                  *)
(***************************************************************************)
\* `ip netns list | grep -w {ns}` and `ns in result.stdout`
exists_ns(ns, h) == \E line \in NetnsLines(h) : WordMatch(ns, line)

\* `brctl show | grep -w {bridge}` and `bridge in result.stdout`
exists_bridge(bridge, h) == \E t \in BrctlTokens(h) : WordMatch(bridge, t)

(***************************************************************************)
(* run(cmd, check): issue one command.  With check set a failure raises    *)
(* CalledProcessError: "[ERROR]" is printed and the process exits with     *)
(* code 1.  Without it subprocess.run raises nothing: the command's error  *)
(* output is printed and the caller goes on.  msg is what the caller       *)
(* prints next when it goes on to `next`.                                  *)
(***************************************************************************)
\* what run() leaves on the terminal for one command: the command, the mode
\* it was issued in and whether it succeeded
Entry(c, check, ok) == [c |-> c, check |-> check, ok |-> ok]

Say(p, tags) == out' = [out EXCEPT ![p] = @ \o tags]

\* run(), had it gone on after a failure whatever `check` says
run_never_exits(p, c, check, next, msg) ==
    \E r \in ExecSet(c, host) :
        /\ host' = r.h
        /\ log' = [log EXCEPT ![p] = Append(@, Entry(c, check, r.ok))]
        /\ pc' = [pc EXCEPT ![p] = next]
        /\ rc' = rc
        /\ Say(p, (IF r.ok THEN <<>> ELSE <<"stderr">>) \o msg)

run(p, c, check, next, msg) ==
    \E r \in ExecSet(c, host) :
        /\ host' = r.h
        /\ log' = [log EXCEPT ![p] = Append(@, Entry(c, check, r.ok))]
        /\ IF r.ok \/ ~check
           THEN /\ pc' = [pc EXCEPT ![p] = next]
                /\ rc' = rc
                /\ Say(p, (IF r.ok THEN <<>> ELSE <<"stderr">>) \o msg)
           ELSE /\ pc' = [pc EXCEPT ![p] = "done"]
                /\ rc' = [rc EXCEPT ![p] = 1]
                /\ Say(p, <<"ERROR">>)

\* an uncaught exception: a traceback, exit code 1
raise(p) ==
    /\ pc' = [pc EXCEPT ![p] = "done"]
    /\ rc' = [rc EXCEPT ![p] = 1]
    /\ Say(p, <<"Traceback">>)


(***************************************************************************)
(* main: parse the command line and dispatch (the elif chain)              *)
(***************************************************************************)
\* parse_args: the parser defines no --nat, so a command line that holds one
\* is refused (usage, "unrecognized arguments", exit code 2)
Unrecognized(a) == a.nat # None

Dispatch(a) ==
    IF Unrecognized(a) THEN "done"
    ELSE IF a.create_vpc # None THEN "L77"
    ELSE IF a.delete_vpc # None THEN "L95"
    ELSE IF a.add_subnet # None THEN "L124"
    ELSE IF a.peer_vpcs # None THEN "L172"
    ELSE IF a.apply_policy # None THEN "L194"
    ELSE IF a.cleanup THEN "L237"
    ELSE "done"

main(p) ==
    /\ pc[p] \in {"idle", "done"}
    /\ ninv < MaxInvocations
    /\ \E a \in CommandLines(world) :
        /\ argv' = [argv EXCEPT ![p] = a]
        /\ pc' = [pc EXCEPT ![p] = Dispatch(a)]
        /\ out' = [out EXCEPT ![p] = IF Unrecognized(a) THEN <<"usage error">>
                                     ELSE IF Dispatch(a) = "done" THEN <<"help">>
                                     ELSE <<>>]
        /\ rc' = [rc EXCEPT ![p] = IF Unrecognized(a) THEN 2 ELSE 0]
        /\ prior' = [prior EXCEPT ![p] =
                        IF pc[p] = "done" /\ a = argv[p] /\ rc[p] = 0 THEN @ + 1 ELSE 0]
    /\ last' = [last EXCEPT ![p] = [argv |-> argv[p], rc |-> rc[p], log |-> log[p]]]
    /\ log' = [log EXCEPT ![p] = <<>>]
    /\ idx' = [idx EXCEPT ![p] = 0]
    /\ ninv' = ninv + 1
    /\ UNCHANGED <<world, host>>

Frame == UNCHANGED <<world, argv, idx, last, prior, ninv>>

(***************************************************************************)
(* create_vpc(vpc_name, cidr_block)                                        *)
(***************************************************************************)
create_vpc_probe(p) ==
    /\ pc[p] = "L77"
    /\ IF ~exists_bridge(bridge_name(argv[p].create_vpc[1]), host)
       THEN pc' = [pc EXCEPT ![p] = "L78"] /\ out' = out
       ELSE pc' = [pc EXCEPT ![p] = "done"] /\ Say(p, <<"bridge exists, skipping">>)
    /\ UNCHANGED <<host, rc, log>>
    /\ Frame

\* line 78, had it issued the creation in tolerant mode
create_vpc_add_tolerant(p) ==
    /\ pc[p] = "L78"
    /\ run(p, link_add_bridge(bridge_name(argv[p].create_vpc[1])), FALSE, "L79", <<>>)
    /\ Frame

create_vpc_add(p) ==
    /\ pc[p] = "L78"
    /\ run(p, link_add_bridge(bridge_name(argv[p].create_vpc[1])), TRUE, "L79", <<>>)
    /\ Frame

\* create_vpc's last line, had main tested its options with a chain of `if`s:
\* the invocation goes on to the next option given
create_vpc_up_falls_through(p) ==
    /\ pc[p] = "L79"
    /\ run(p, link_set_up(bridge_name(argv[p].create_vpc[1])), TRUE,
           Dispatch([argv[p] EXCEPT !.create_vpc = None]), <<"VPC created">>)
    /\ Frame

create_vpc_up(p) ==
    /\ pc[p] = "L79"
    /\ run(p, link_set_up(bridge_name(argv[p].create_vpc[1])), TRUE, "done",
           <<"VPC created">>)
    /\ Frame

(***************************************************************************)
(* delete_vpc(vpc_name)                                                    *)
(***************************************************************************)
RECURSIVE RunAllTolerant(_, _)
\* run(cmd, check=False) for each command of a sequence: the host afterwards,
\* the log entries and the error output printed
RunAllTolerant(cmds, h) ==
    IF cmds = <<>> THEN [h |-> h, log |-> <<>>, out |-> <<>>]
    ELSE LET r == Exec(Head(cmds), h)
             rest == RunAllTolerant(Tail(cmds), r.h)
         IN  [h |-> rest.h,
              log |-> <<Entry(Head(cmds), FALSE, r.ok)>> \o rest.log,
              out |-> (IF r.ok THEN <<>> ELSE <<"stderr">>) \o rest.out]

\* the loop over the lines of `ip netns list`
delete_vpc_namespaces(p) ==
    /\ pc[p] = "L95"
    /\ LET vpc_name == argv[p].delete_vpc
           cmds == SetToSeq({netns_delete(ns) :
                               ns \in {l \in NetnsLines(host) : StartsWith(l, vpc_name)}})
           r == RunAllTolerant(cmds, host)
       IN  /\ host' = r.h
           /\ log' = [log EXCEPT ![p] = @ \o r.log]
           /\ Say(p, r.out)
    /\ pc' = [pc EXCEPT ![p] = "L102"]
    /\ UNCHANGED rc
    /\ Frame

delete_vpc_probe(p) ==
    /\ pc[p] = "L102"
    /\ IF exists_bridge(bridge_name(argv[p].delete_vpc), host)
       THEN pc' = [pc EXCEPT ![p] = "L103"] /\ out' = out
       ELSE pc' = [pc EXCEPT ![p] = "done"] /\ Say(p, <<"bridge not found, skipping">>)
    /\ UNCHANGED <<host, rc, log>>
    /\ Frame

\* line 103, had it been issued in fatal mode
delete_vpc_down_fatal(p) ==
    /\ pc[p] = "L103"
    /\ run(p, link_set_down(bridge_name(argv[p].delete_vpc)), TRUE, "L104", <<>>)
    /\ Frame

delete_vpc_down(p) ==
    /\ pc[p] = "L103"
    /\ run(p, link_set_down(bridge_name(argv[p].delete_vpc)), FALSE, "L104", <<>>)
    /\ Frame

delete_vpc_del(p) ==
    /\ pc[p] = "L104"
    /\ run(p, link_del(bridge_name(argv[p].delete_vpc)), FALSE, "done", <<"VPC deleted">>)
    /\ Frame

(***************************************************************************)
(* add_subnet(vpc_name, subnet_name, cidr, subnet_type)                    *)
(***************************************************************************)
as_bridge(p) == bridge_name(argv[p].add_subnet[1])
as_ns(p) == ns_name(argv[p].add_subnet[1], argv[p].add_subnet[2])
as_veth_host(p) == veth_host_name(as_ns(p))
as_veth_ns(p) == veth_ns_name(as_ns(p))
as_base_ip(p) == base_ip_of(argv[p].add_subnet[3])
as_gateway(p) == gateway_of(as_base_ip(p))

add_subnet_probe(p) ==
    /\ pc[p] = "L124"
    /\ IF ~exists_ns(as_ns(p), host)
       THEN pc' = [pc EXCEPT ![p] = "L125"] /\ out' = out
       ELSE pc' = [pc EXCEPT ![p] = "L130"] /\ Say(p, <<"namespace exists">>)
    /\ UNCHANGED <<host, rc, log>>
    /\ Frame

add_subnet_netns(p) ==
    /\ pc[p] = "L125"
    /\ run(p, netns_add(as_ns(p)), TRUE, "L130", <<>>)
    /\ Frame

\* add_subnet, had it created the pair without removing a stale end first
add_subnet_keep_stale(p) ==
    /\ pc[p] = "L130"
    /\ pc' = [pc EXCEPT ![p] = "L131"]
    /\ UNCHANGED <<host, rc, log, out>>
    /\ Frame

\* cleanup_veth(veth_host)
add_subnet_cleanup_veth(p) ==
    /\ pc[p] = "L130"
    /\ run(p, link_del(as_veth_host(p)), FALSE, "L131", <<>>)
    /\ Frame

add_subnet_veth(p) ==
    /\ pc[p] = "L131"
    /\ run(p, veth_add(as_veth_host(p), as_veth_ns(p)), TRUE, "L132", <<>>)
    /\ Frame

add_subnet_master(p) ==
    /\ pc[p] = "L132"
    /\ run(p, link_set_master(as_veth_host(p), as_bridge(p)), TRUE, "L133", <<>>)
    /\ Frame

add_subnet_host_up(p) ==
    /\ pc[p] = "L133"
    /\ run(p, link_set_up(as_veth_host(p)), TRUE, "L134", <<>>)
    /\ Frame

add_subnet_move(p) ==
    /\ pc[p] = "L134"
    /\ run(p, link_set_netns(as_veth_ns(p), as_ns(p)), TRUE, "L135", <<>>)
    /\ Frame

add_subnet_ns_up(p) ==
    /\ pc[p] = "L135"
    /\ run(p, ns_link_set_up(as_ns(p), as_veth_ns(p)), TRUE, "L139", <<>>)
    /\ Frame

add_subnet_addr(p) ==
    /\ pc[p] = "L139"
    /\ run(p, ns_addr_add(as_ns(p), as_base_ip(p), as_veth_ns(p)), TRUE, "L143", <<>>)
    /\ Frame

add_subnet_route(p) ==
    /\ pc[p] = "L143"
    /\ run(p, ns_route_add(as_ns(p), as_gateway(p)), TRUE, "done", <<"subnet added">>)
    /\ Frame

(***************************************************************************)
(* configure_nat(subnet_ns, internet_iface): what the function does when   *)
(* called.  Nothing in main calls it, so it is no step of an invocation.   *)
(***************************************************************************)
configure_nat(p) ==
    /\ pc[p] = "L155"
    /\ run(p, ns_iptables_nat(argv[p].nat[1], argv[p].nat[2]), TRUE, "done",
           <<"NAT configured">>)
    /\ Frame

(***************************************************************************)
(* peer_vpcs(vpc1, vpc2)                                                   *)
(***************************************************************************)
pv_br1(p) == bridge_name(argv[p].peer_vpcs[1])
\* br2, had it been built from vpc1 as br1 is
pv_br2_from_vpc1(p) == bridge_name(argv[p].peer_vpcs[1])
pv_br2(p) == bridge_name(argv[p].peer_vpcs[2])
pv_peer0(p) == peer0_name(argv[p].peer_vpcs[1], argv[p].peer_vpcs[2])
pv_peer1(p) == peer1_name(argv[p].peer_vpcs[1], argv[p].peer_vpcs[2])

\* peer_vpcs, had it not removed the stale pair first
peer_vpcs_keep_stale(p) ==
    /\ pc[p] = "L172"
    /\ pc' = [pc EXCEPT ![p] = "L173"]
    /\ UNCHANGED <<host, rc, log, out>>
    /\ Frame

\* cleanup_veth(peer0)
peer_vpcs_cleanup_veth(p) ==
    /\ pc[p] = "L172"
    /\ run(p, link_del(pv_peer0(p)), FALSE, "L173", <<>>)
    /\ Frame

peer_vpcs_veth(p) ==
    /\ pc[p] = "L173"
    /\ run(p, veth_add(pv_peer0(p), pv_peer1(p)), TRUE, "L174", <<>>)
    /\ Frame

peer_vpcs_master0(p) ==
    /\ pc[p] = "L174"
    /\ run(p, link_set_master(pv_peer0(p), pv_br1(p)), TRUE, "L175", <<>>)
    /\ Frame

peer_vpcs_master1(p) ==
    /\ pc[p] = "L175"
    /\ run(p, link_set_master(pv_peer1(p), pv_br2(p)), TRUE, "L176", <<>>)
    /\ Frame

peer_vpcs_up0(p) ==
    /\ pc[p] = "L176"
    /\ run(p, link_set_up(pv_peer0(p)), TRUE, "L177", <<>>)
    /\ Frame

peer_vpcs_up1(p) ==
    /\ pc[p] = "L177"
    /\ run(p, link_set_up(pv_peer1(p)), TRUE, "done", <<"VPCs peered">>)
    /\ Frame


(***************************************************************************)
(* apply_policy(policy_file)                                               *)
(***************************************************************************)
ap_policy(p) == FileContent(argv[p].apply_policy[1])
\* policy.get("ingress", [])
ap_ingress(p) ==
    IF "ingress" \in DOMAIN ap_policy(p) THEN ap_policy(p).ingress ELSE <<>>

\* json.load, policy["subnet"], policy.get("ingress", [])
apply_policy_load(p) ==
    /\ pc[p] = "L194"
    /\ IF "subnet" \notin DOMAIN ap_policy(p)
       THEN raise(p) /\ idx' = idx
       ELSE IF ap_ingress(p) = <<>>
       THEN /\ pc' = [pc EXCEPT ![p] = "done"]
            /\ Say(p, <<"policy applied">>)
            /\ UNCHANGED <<rc, idx>>
       ELSE /\ pc' = [pc EXCEPT ![p] = "L200"]
            /\ idx' = [idx EXCEPT ![p] = 1]
            /\ UNCHANGED <<rc, out>>
    /\ UNCHANGED <<world, host, argv, log, last, prior, ninv>>

\* one turn of `for rule in ingress`
apply_policy_rule(p) ==
    /\ pc[p] = "L200"
    /\ LET rule == ap_ingress(p)[idx[p]]
           next == IF idx[p] = Len(ap_ingress(p)) THEN "done" ELSE "L200"
           msg == IF idx[p] = Len(ap_ingress(p)) THEN <<"policy applied">> ELSE <<>>
       IN  IF {"port", "protocol", "action"} \subseteq DOMAIN rule
           THEN run(p, ns_iptables(ap_policy(p).subnet, rule.protocol, FmtNat(rule.port),
                                   IF rule.action = Allow THEN ACCEPT ELSE DROP),
                    TRUE, next, msg)
           ELSE raise(p) /\ UNCHANGED <<host, log>>
    /\ idx' = [idx EXCEPT ![p] = @ + 1]
    /\ UNCHANGED <<world, argv, last, prior, ninv>>

(***************************************************************************)
(* --cleanup                                                               *)
(***************************************************************************)
cleanup_namespaces(p) ==
    /\ pc[p] = "L237"
    /\ run(p, netns_delete_all, FALSE, "L238", <<>>)
    /\ Frame

cleanup_bridges(p) ==
    /\ pc[p] = "L238"
    /\ run(p, bridge_delete_all, FALSE, "done", <<"cleanup completed">>)
    /\ Frame

(***************************************************************************)
(* Specification: invocations run one after the other                      *)
(***************************************************************************)
Step(p) ==
    \/ main(p)
    \/ create_vpc_probe(p) \/ create_vpc_add(p) \/ create_vpc_up(p)
    \/ delete_vpc_namespaces(p) \/ delete_vpc_probe(p)
    \/ delete_vpc_down(p) \/ delete_vpc_del(p)
    \/ add_subnet_probe(p) \/ add_subnet_netns(p) \/ add_subnet_cleanup_veth(p)
    \/ add_subnet_veth(p) \/ add_subnet_master(p) \/ add_subnet_host_up(p)
    \/ add_subnet_move(p) \/ add_subnet_ns_up(p) \/ add_subnet_addr(p)
    \/ add_subnet_route(p)
    \/ peer_vpcs_cleanup_veth(p) \/ peer_vpcs_veth(p) \/ peer_vpcs_master0(p)
    \/ peer_vpcs_master1(p) \/ peer_vpcs_up0(p) \/ peer_vpcs_up1(p)
    \/ apply_policy_load(p) \/ apply_policy_rule(p)
    \/ cleanup_namespaces(p) \/ cleanup_bridges(p)

Next == Step(1)

Spec == Init /\ [][Next]_vars

(***************************************************************************)
(* Specification: two shells, each running create-vpc invocations, their   *)
(* steps interleaved (every probe and every command is a process of its    *)
(* own, so the host may change between any two of them)                    *)
(***************************************************************************)
\* main, for a command line that gives --create-vpc and nothing else
main_create_vpc(p) ==
    main(p) /\ argv'[p].create_vpc # None /\ GivenCount(argv'[p]) = 1 /\ argv'[p].nat = None

RaceStep(p) ==
    \/ main_create_vpc(p)
    \/ create_vpc_probe(p) \/ create_vpc_add(p) \/ create_vpc_up(p)

RaceNext == RaceStep(1) \/ RaceStep(2)

RaceSpec == Init /\ [][RaceNext]_vars


(***************************************************************************)
(* Properties                                                              *)
(***************************************************************************)
\* invocation p has finished, and main dispatched it to the operation that
\* starts at `label`
Ran(p, label) == pc[p] = "done" /\ Dispatch(argv[p]) = label

\* invocation p repeats, unchanged, the command line of the run before it
Rerun(p) == last[p].argv = argv[p]

Switches(name) == {b \in host.br : b.name = bridge_name(name)}

\* C1: create-network is idempotent: when create-network(name, cidr) has run
\* twice in a row, exactly one switch for `name` exists, and the second run
\* issued no command (no creation, no activation) and logged a skip.
C1_CreateTwiceLeavesOneSwitch ==
    \A p \in Procs :
        (Ran(p, "L77") /\ Rerun(p)) =>
            /\ Cardinality(Switches(argv[p].create_vpc[1])) = 1
            /\ log[p] = <<>>
            /\ out[p] = <<"bridge exists, skipping">>

\* a log in which the switch of network n was removed: n was a network
RemovedSwitch(l, n) ==
    \E i \in 1..Len(l) : l[i] = Entry(link_del(bridge_name(n)), FALSE, TRUE)

\* C2: cascading delete: for a network n (its switch was there for
\* delete-network(n) to remove), after delete-network(n) none of the contexts
\* of n's subnetworks and no switch for n exist; and a second
\* delete-network(n), right after it, issues no removal command and reports
\* the switch absent.
C2_DeleteCascades ==
    \A p \in Procs :
        /\ (Ran(p, "L95") /\ RemovedSwitch(log[p], argv[p].delete_vpc)) =>
                /\ \A s \in world.subnets :
                       ns_name(argv[p].delete_vpc, s) \notin NsNames(host)
                /\ Switches(argv[p].delete_vpc) = {}
        /\ (Ran(p, "L95") /\ Rerun(p) /\ RemovedSwitch(last[p].log, argv[p].delete_vpc)) =>
                /\ log[p] = <<>>
                /\ out[p] = <<"bridge not found, skipping">>

\* C3: cleanup totality: whatever the host held when cleanup started, once
\* cleanup has finished no switch and no isolated context exists.
C3_CleanupLeavesNothing ==
    \A p \in Procs : Ran(p, "L237") => host.br = {} /\ host.ns = {}

\* C3 witness: a cleanup that followed an add-subnetwork which ended fatally;
\* its first pipeline tripped over an id suffix of the listing, its second
\* removed the switches, and nothing is left
C3_Witness ==
    /\ Ran(1, "L237")
    /\ last[1].argv.add_subnet # None /\ last[1].rc = 1
    /\ Len(log[1]) = 2 /\ ~log[1][1].ok /\ log[1][2].ok
    /\ host.br = {} /\ host.ns = {}


\* the addressing the specification plans for a block A.B.C.D/p: the first
\* three octets followed by .1 (gateway) and .2 (host), both with length p
FirstThree(cidr) ==
    LET f == Fields(SplitFirst(cidr, "/"), ".")
    IN  f[1] \o <<".">> \o f[2] \o <<".">> \o f[3]
PlannedGateway(cidr) == FirstThree(cidr) \o <<".", "1">>
PlannedHost(cidr) == FirstThree(cidr) \o <<".", "2">>
PlannedLen(cidr) == ToNat(SplitRest(cidr, "/"))

\* the context-side cable ends of add-subnetwork invocation p
ContextEnds(p) == {e \in EndsIn(host, as_ns(p)) : e.name = as_veth_ns(p)}

\* C4: deterministic addressing: once add-subnetwork(network, subnet,
\* A.B.C.D/p, type) has assigned its address, the network's switch holds the
\* gateway address A.B.C.1/p and the context-side cable end holds the host
\* address A.B.C.2/p.
C4_PlannedAddresses ==
    \A p \in Procs :
        (/\ Dispatch(argv[p]) = "L124"
         /\ \E i \in 1..Len(log[p]) :
                log[p][i].c.op = "ip netns exec X ip addr add Y dev Z" /\ log[p][i].ok) =>
            LET cidr == argv[p].add_subnet[3]
            IN  /\ \A b \in host.br : b.name = as_bridge(p) =>
                       [ip |-> PlannedGateway(cidr), plen |-> PlannedLen(cidr)] \in b.addr
                /\ \A e \in ContextEnds(p) :
                       [ip |-> PlannedHost(cidr), plen |-> PlannedLen(cidr)] \in e.addr

\* C5: identifier length budget: every interface identifier that
\* add-subnetwork or peer-networks passes to a cable-pair creation command is
\* at most 15 characters long.  (The claim's second half, that the identifier
\* begins with a two-character role prefix, has nothing to be read against:
\* the source marks the roles with "veth-", "peer-" and a suffix.)
C5_IdentifiersFit ==
    \A p \in Procs : \A i \in 1..Len(log[p]) :
        log[p][i].c.op = "ip link add X type veth peer name Y" =>
            Len(log[p][i].c.x) <= 15 /\ Len(log[p][i].c.y) <= 15


\* the cable pairs that carry the names peer-networks(x, y) gives its pair
PeerPairs(x, y) ==
    {q \in host.veth : {q.a.name, q.b.name} \cap {peer0_name(x, y), peer1_name(x, y)} # {}}

\* a pair joins x's switch to y's: end A is a port of the one, end B of the other
Joins(q, x, y) ==
    /\ q.a.ns = Root /\ q.a.master = bridge_name(x) /\ bridge_name(x) \in BridgeNames(host)
    /\ q.b.ns = Root /\ q.b.master = bridge_name(y) /\ bridge_name(y) \in BridgeNames(host)

\* C6: peering naming asymmetry: when a successful peer-networks(x, y) is
\* followed by a successful peer-networks(y, x) with x # y, the first pair is
\* still there and a second, differently named one has been created, so that
\* two cable pairs join the two switches.
C6_SwappedPeeringAddsPair ==
    \A p \in Procs :
        (/\ Ran(p, "L172") /\ rc[p] = 0
         /\ Dispatch(last[p].argv) = "L172" /\ last[p].rc = 0
         /\ last[p].argv.peer_vpcs = <<argv[p].peer_vpcs[2], argv[p].peer_vpcs[1]>>
         /\ argv[p].peer_vpcs[1] # argv[p].peer_vpcs[2]) =>
            LET y == argv[p].peer_vpcs[1]
                x == argv[p].peer_vpcs[2]
            IN  /\ \E q \in PeerPairs(x, y) : Joins(q, x, y)
                /\ \E q \in PeerPairs(y, x) : Joins(q, y, x)
                /\ PeerPairs(x, y) \cap PeerPairs(y, x) = {}
                /\ Cardinality(PeerPairs(x, y) \cup PeerPairs(y, x)) = 2

\* C6, amended: the same, for networks whose two orders give different cable
\* names, that is when peer-x-y-0 and peer-y-x-0 differ.
C6_SwappedPeeringAddsPair_DistinctNames ==
    \A p \in Procs :
        (/\ Ran(p, "L172") /\ rc[p] = 0
         /\ Dispatch(last[p].argv) = "L172" /\ last[p].rc = 0
         /\ last[p].argv.peer_vpcs = <<argv[p].peer_vpcs[2], argv[p].peer_vpcs[1]>>
         /\ argv[p].peer_vpcs[1] # argv[p].peer_vpcs[2]
         /\ peer0_name(argv[p].peer_vpcs[1], argv[p].peer_vpcs[2])
                # peer0_name(argv[p].peer_vpcs[2], argv[p].peer_vpcs[1])) =>
            LET y == argv[p].peer_vpcs[1]
                x == argv[p].peer_vpcs[2]
            IN  /\ \E q \in PeerPairs(x, y) : Joins(q, x, y)
                /\ \E q \in PeerPairs(y, x) : Joins(q, y, x)
                /\ PeerPairs(x, y) \cap PeerPairs(y, x) = {}
                /\ Cardinality(PeerPairs(x, y) \cup PeerPairs(y, x)) = 2

\* C6 witness: peer-networks(b, a) has succeeded right after a successful
\* peer-networks(a, b), and both pairs are there
C6_Witness ==
    /\ Ran(1, "L172") /\ rc[1] = 0 /\ argv[1].peer_vpcs = <<VpcB, VpcA>>
    /\ Dispatch(last[1].argv) = "L172" /\ last[1].rc = 0
    /\ last[1].argv.peer_vpcs = <<VpcA, VpcB>>
    /\ Cardinality(PeerPairs(VpcA, VpcB) \cup PeerPairs(VpcB, VpcA)) = 2

\* C7: peering replacement: a peer-networks(x, y) that repeats, any number of
\* times, a peer-networks(x, y) that succeeded, succeeds as well and leaves
\* exactly one cable pair for (x, y), end A on x's switch and end B on y's;
\* each run removed the stale end A before it created the pair.
C7_RepeatedPeeringReplaces ==
    \A p \in Procs :
        (Ran(p, "L172") /\ prior[p] >= 1) =>
            LET x == argv[p].peer_vpcs[1]
                y == argv[p].peer_vpcs[2]
            IN  /\ rc[p] = 0
                /\ Cardinality(PeerPairs(x, y)) = 1
                /\ \A q \in PeerPairs(x, y) :
                       /\ q.a.name = peer0_name(x, y) /\ q.b.name = peer1_name(x, y)
                       /\ Joins(q, x, y)
                /\ Len(log[p]) = 6
                /\ log[p][1] = Entry(link_del(peer0_name(x, y)), FALSE, TRUE)
                /\ log[p][2] = Entry(veth_add(peer0_name(x, y), peer1_name(x, y)), TRUE, TRUE)

\* C7 witness: the third successful peering of two different networks in a row
C7_Witness ==
    /\ Ran(1, "L172") /\ prior[1] = 2 /\ rc[1] = 0
    /\ argv[1].peer_vpcs[1] # argv[1].peer_vpcs[2]
    /\ Cardinality(PeerPairs(argv[1].peer_vpcs[1], argv[1].peer_vpcs[2])) = 1


\* the filter rules of a context (none when the context does not exist)
RulesOf(h, name) == IF \E n \in h.ns : n.name = name
                    THEN (CHOOSE n \in h.ns : n.name = name).rules ELSE <<>>

IsPrefix(s, t) == Len(s) <= Len(t) /\ SubSeq(t, 1, Len(s)) = s

\* the chain entries a well-formed rule list stands for, in document order
Rendered(ingress) ==
    [i \in 1..Len(ingress) |->
        [proto |-> ingress[i].protocol, port |-> FmtNat(ingress[i].port),
         target |-> IF ingress[i].action = Allow THEN ACCEPT ELSE DROP]]

RECURSIVE Times(_, _)
\* k copies of a sequence, one after the other
Times(s, k) == IF k = 0 THEN <<>> ELSE s \o Times(s, k - 1)

\* a policy document that lacks the subnet field, or one of whose rules lacks
\* protocol, port or action
Malformed(doc) ==
    \/ "subnet" \notin DOMAIN doc
    \/ /\ "ingress" \in DOMAIN doc
       /\ \E i \in 1..Len(doc.ingress) :
              ~({"protocol", "port", "action"} \subseteq DOMAIN doc.ingress[i])

\* C8: policy accumulation: a step of apply-ingress-policy removes no context
\* and leaves every context's rule list a prefix of what it is afterwards; and
\* when a document of n rules has been applied k times in a row, the last k*n
\* rules of its context are k copies of the document's rules, in document
\* order.
C8_PolicyOnlyAppends ==
    [][\A p \in Procs :
        pc[p] \in {"L194", "L200"} =>
            /\ \A n \in host.ns : IsPrefix(n.rules, RulesOf(host', n.name))
            /\ NsNames(host) = NsNames(host')
            /\ (pc'[p] = "done" /\ rc'[p] = 0) =>
                   LET all == RulesOf(host', ap_policy(p).subnet)
                       mine == Times(Rendered(ap_ingress(p)), prior[p] + 1)
                   IN  /\ Len(mine) <= Len(all)
                       /\ SubSeq(all, Len(all) - Len(mine) + 1, Len(all)) = mine]_vars

\* C8 witness: the two-rule document has been applied for the third time in a
\* row, and its context holds six rules
C8_Witness ==
    /\ Ran(1, "L194") /\ rc[1] = 0 /\ prior[1] = 2
    /\ argv[1].apply_policy = <<"two_rules.json">>
    /\ Len(RulesOf(host, ns_name(VpcA, SubS1))) = 6

\* C9: policy validation precedes action: an apply-ingress-policy whose
\* document lacks the subnet field, or has a rule that lacks protocol, port
\* or action, ends with a non-zero exit code and has installed no rule.
C9_MalformedPolicyInstallsNothing ==
    \A p \in Procs :
        (Ran(p, "L194") /\ Malformed(ap_policy(p))) =>
            /\ rc[p] # 0
            /\ \A i \in 1..Len(log[p]) : ~log[p][i].ok

\* what a creation command makes is on the host
StillThere(c) ==
    CASE c.op = "ip link add name X type bridge" -> c.x \in BridgeNames(host)
      [] c.op = "ip netns add X" -> c.x \in NsNames(host)
      [] c.op = "ip link add X type veth peer name Y" ->
            \E q \in host.veth : q.a.name = c.x /\ q.b.name = c.y
      [] c.op = "ip netns exec X iptables -A INPUT -p Y --dport Z -j W" ->
            \E i \in 1..Len(RulesOf(host, c.x)) :
                RulesOf(host, c.x)[i] = [proto |-> c.y, port |-> c.z, target |-> c.w]
      [] OTHER -> TRUE

\* C10: no rollback on fatal failure: a command issued in fatal mode that
\* failed is the last command of its invocation, the invocation has ended
\* with exit code 1, and whatever the earlier commands of the invocation
\* created is still on the host.
C10_FatalFailureStopsWithoutRollback ==
    \A p \in Procs : \A i \in 1..Len(log[p]) :
        (log[p][i].check /\ ~log[p][i].ok) =>
            /\ i = Len(log[p])
            /\ pc[p] = "done" /\ rc[p] = 1
            /\ \A j \in 1..(i - 1) : log[p][j].ok => StillThere(log[p][j].c)

\* C10 witness: add-subnetwork on a network that has no switch: the context
\* and the cable pair were created, attaching the host end failed, exit 1
C10_Witness ==
    /\ Ran(1, "L124") /\ rc[1] = 1 /\ Len(log[1]) = 4
    /\ log[1][1] = Entry(netns_add(as_ns(1)), TRUE, TRUE)
    /\ log[1][3] = Entry(veth_add(as_veth_host(1), as_veth_ns(1)), TRUE, TRUE)
    /\ log[1][4] = Entry(link_set_master(as_veth_host(1), as_bridge(1)), TRUE, FALSE)
    /\ as_ns(1) \in NsNames(host)
    /\ \E q \in host.veth : q.a.name = as_veth_host(1) /\ q.b.name = as_veth_ns(1)

\* C11: check-then-act race: when two create-network invocations for the same
\* name have both found the switch absent and both issued the creation, one
\* creation succeeded and the other failed, and the one that failed ended its
\* invocation at once with "[ERROR]" and exit code 1; and whatever the
\* interleaving, no name has more than one switch.
C11_CreateRace ==
    /\ \A n \in world.vpcs : Cardinality(Switches(n)) <= 1
    /\ \A p \in Procs : \A q \in Procs \ {p} :
        (/\ Dispatch(argv[p]) = "L77" /\ Dispatch(argv[q]) = "L77"
         /\ argv[p].create_vpc[1] = argv[q].create_vpc[1]
         /\ log[p] # <<>> /\ log[q] # <<>>) =>
            LET c == link_add_bridge(bridge_name(argv[p].create_vpc[1]))
            IN  /\ log[p][1].c = c /\ log[q][1].c = c
                /\ log[p][1].ok # log[q][1].ok
                /\ ~log[p][1].ok =>
                       /\ log[p] = <<Entry(c, TRUE, FALSE)>>
                       /\ pc[p] = "done" /\ rc[p] = 1
                       /\ out[p] = <<"ERROR">>
                /\ Cardinality(Switches(argv[p].create_vpc[1])) = 1

\* C11 witness: both invocations found a-br absent; the first created and
\* activated it, the second's creation failed and it exited with code 1
C11_Witness ==
    /\ Ran(1, "L77") /\ Ran(2, "L77")
    /\ argv[1].create_vpc[1] = VpcA /\ argv[2].create_vpc[1] = VpcA
    /\ rc[1] = 0 /\ Len(log[1]) = 2 /\ log[1][1].ok /\ log[1][2].ok
    /\ rc[2] = 1 /\ log[2] = <<Entry(link_add_bridge(bridge_name(VpcA)), TRUE, FALSE)>>
    /\ Cardinality(Switches(VpcA)) = 1

\* C12: delete-network and cleanup never end in a fatal error: every command
\* they issue is in tolerant mode and their exit code is never 1; a finished
\* cleanup has issued both of its pipelines, and a finished delete-network
\* that found the switch has issued both the deactivation and the removal,
\* whichever of the commands failed.
C12_DeleteAndCleanupNeverFatal ==
    \A p \in Procs :
        /\ Dispatch(argv[p]) \in {"L95", "L237"} =>
                /\ rc[p] = 0
                /\ \A i \in 1..Len(log[p]) : ~log[p][i].check
                /\ "ERROR" \notin {out[p][i] : i \in 1..Len(out[p])}
        /\ Ran(p, "L237") =>
                /\ Len(log[p]) = 2
                /\ log[p][1].c = netns_delete_all /\ log[p][2].c = bridge_delete_all
                /\ out[p][Len(out[p])] = "cleanup completed"
        /\ Ran(p, "L95") =>
                LET b == bridge_name(argv[p].delete_vpc)
                    n == Len(log[p])
                IN  \/ /\ out[p][Len(out[p])] = "bridge not found, skipping"
                       /\ \A i \in 1..n : log[p][i].c.op = "ip netns delete X"
                    \/ /\ out[p][Len(out[p])] = "VPC deleted"
                       /\ n >= 2
                       /\ log[p][n - 1].c = link_set_down(b) /\ log[p][n].c = link_del(b)
                       /\ \A i \in 1..(n - 2) : log[p][i].c.op = "ip netns delete X"

\* C12 witness: a delete-network whose three commands all failed (the
\* context's line carried an id suffix, the probe answered for another
\* network's switch) and that still ran to its end with exit code 0
C12_Witness ==
    /\ Ran(1, "L95") /\ rc[1] = 0
    /\ Len(log[1]) = 3
    /\ \A i \in 1..3 : ~log[1][i].ok
    /\ out[1][Len(out[1])] = "VPC deleted"

\* the operation a line of the source belongs to
Operation(label) ==
    CASE label \in {"L77", "L78", "L79"} -> "create_vpc"
      [] label \in {"L95", "L102", "L103", "L104"} -> "delete_vpc"
      [] label \in {"L124", "L125", "L130", "L131", "L132", "L133", "L134", "L135",
                    "L139", "L143"} -> "add_subnet"
      [] label \in {"L172", "L173", "L174", "L175", "L176", "L177"} -> "peer_vpcs"
      [] label \in {"L194", "L200"} -> "apply_policy"
      [] label \in {"L237", "L238"} -> "cleanup"

\* the invocation is inside an operation
Running(label) == label \notin {"idle", "done"}

\* this step is the start of an invocation of process p
Started(p) == ninv' # ninv /\ <<pc[p], argv[p], prior[p]>>' # <<pc[p], argv[p], prior[p]>>

\* C13: dispatch exclusivity: an invocation enters at most one operation, one
\* whose option the command line gives, and stays in it until it ends,
\* however many options are given; an invocation that gives no option issues
\* no command, changes nothing on the host, prints the usage help and ends
\* with exit code 0.
C13_DispatchExclusive ==
    [][\A p \in Procs :
        /\ (~Running(pc[p]) /\ Running(pc'[p])) =>
                /\ IF Operation(pc'[p]) = "cleanup" THEN argv'[p].cleanup
                   ELSE argv'[p][Operation(pc'[p])] # None
                /\ log'[p] = <<>> /\ host' = host
        /\ (Running(pc[p]) /\ Running(pc'[p])) =>
                /\ Operation(pc'[p]) = Operation(pc[p])
                /\ argv'[p] = argv[p]
        /\ (Started(p) /\ GivenCount(argv'[p]) = 0 /\ argv'[p].nat = None) =>
                /\ pc'[p] = "done" /\ rc'[p] = 0
                /\ log'[p] = <<>> /\ out'[p] = <<"help">>
                /\ host' = host]_vars

\* C13 witness: a command line that gave all six options has run create_vpc
\* to its end and nothing else: two commands, one switch, no context
C13_Witness ==
    /\ GivenCount(argv[1]) = 6
    /\ pc[1] = "done" /\ rc[1] = 0
    /\ log[1] = <<Entry(link_add_bridge(bridge_name(VpcA)), TRUE, TRUE),
                  Entry(link_set_up(bridge_name(VpcA)), TRUE, TRUE)>>
    /\ out[1] = <<"VPC created">>
    /\ BridgeNames(host) = {bridge_name(VpcA)} /\ host.ns = {}

\* the address-translation rules of a context
NatOf(h, name) == IF \E n \in h.ns : n.name = name
                  THEN (CHOOSE n \in h.ns : n.name = name).nat ELSE <<>>

\* C14: configure-nat is a dispatchable command: an invocation that selects
\* configure-nat (and nothing else) for an existing context and an uplink
\* ends with exit code 0, having issued the one command that appends the
\* outbound address-translation rule for that uplink to that context.
C14_ConfigureNatDispatchable ==
    \A p \in Procs :
        (/\ pc[p] = "done" /\ argv[p].nat # None /\ GivenCount(argv[p]) = 0
         /\ argv[p].nat[1] \in NsNames(host)) =>
            /\ rc[p] = 0
            /\ log[p] = <<Entry(ns_iptables_nat(argv[p].nat[1], argv[p].nat[2]), TRUE, TRUE)>>
            /\ [out |-> argv[p].nat[2]] \in
                   {NatOf(host, argv[p].nat[1])[i] : i \in 1..Len(NatOf(host, argv[p].nat[1]))}

\* the commands of add-subnetwork, in the order the specification gives them
AddSubnetPlan(p) ==
    <<netns_add(as_ns(p)),
      link_del(as_veth_host(p)),
      veth_add(as_veth_host(p), as_veth_ns(p)),
      link_set_master(as_veth_host(p), as_bridge(p)),
      link_set_up(as_veth_host(p)),
      link_set_netns(as_veth_ns(p), as_ns(p)),
      ns_link_set_up(as_ns(p), as_veth_ns(p)),
      ns_addr_add(as_ns(p), as_base_ip(p), as_veth_ns(p)),
      ns_route_add(as_ns(p), as_gateway(p))>>

\* the place of a command in the plan (0: not a command of the plan)
Rank(plan, c) ==
    IF \E i \in 1..Len(plan) : plan[i] = c
    THEN CHOOSE i \in 1..Len(plan) : plan[i] = c
    ELSE 0

SubnetPairs(p) ==
    {q \in host.veth : {q.a.name, q.b.name} \cap {as_veth_host(p), as_veth_ns(p)} # {}}

\* C16: add-subnetwork rerun: an add-subnetwork that repeats the command line
\* of the run before it, on a network whose switch exists, ends with exit
\* code 0, has skipped the creation of the context and rebuilt the pair, and
\* leaves one context, one cable pair (host end on the switch, context end
\* inside the context), one address and one default route.
C16_AddSubnetRerun ==
    \A p \in Procs :
        (/\ Ran(p, "L124") /\ Rerun(p)
         /\ as_bridge(p) \in BridgeNames(host)) =>
            /\ rc[p] = 0
            /\ out[p][1] = "namespace exists"
            /\ \A i \in 1..Len(log[p]) : log[p][i].c # netns_add(as_ns(p))
            /\ \E i \in 1..Len(log[p]) :
                   log[p][i] = Entry(veth_add(as_veth_host(p), as_veth_ns(p)), TRUE, TRUE)
            /\ Cardinality({n \in host.ns : n.name = as_ns(p)}) = 1
            /\ Cardinality(SubnetPairs(p)) = 1
            /\ \A q \in SubnetPairs(p) :
                   /\ q.a.name = as_veth_host(p) /\ q.a.master = as_bridge(p)
                   /\ q.b.name = as_veth_ns(p) /\ q.b.ns = as_ns(p)
            /\ Cardinality(LocalAddrs(host, as_ns(p))) = 1
            /\ Cardinality(DefaultRoutes(host, as_ns(p))) = 1

\* C17: default-route gateway derivation: for a block A.B.C.D/p, whatever
\* the number of digits of D, the default route add-subnetwork asks for (and
\* any default route found in its context) is via A.B.C.1.
C17_GatewayIsDotOne ==
    \A p \in Procs :
        Dispatch(argv[p]) = "L124" =>
            /\ \A i \in 1..Len(log[p]) :
                   log[p][i].c.op = "ip netns exec X ip route add default via Y" =>
                       log[p][i].c.y = PlannedGateway(argv[p].add_subnet[3])
            /\ pc[p] = "done" =>
                   DefaultRoutes(host, as_ns(p)) \subseteq {PlannedGateway(argv[p].add_subnet[3])}

\* C18: probe exactness: on every host the tool can produce, the switch probe
\* answers true for a name exactly when a switch of that name exists, and the
\* context probe exactly when a context of that name exists; and a
\* create-network(n) that has ended with exit code 0 leaves a switch for n.
C18_ProbesAreExact ==
    /\ \A v \in world.vpcs :
           exists_bridge(bridge_name(v), host) <=> bridge_name(v) \in BridgeNames(host)
    /\ \A v \in world.vpcs : \A s \in world.subnets :
           exists_ns(ns_name(v, s), host) <=> ns_name(v, s) \in NsNames(host)
    /\ \A p \in Procs :
           (Ran(p, "L77") /\ rc[p] = 0) =>
               bridge_name(argv[p].create_vpc[1]) \in BridgeNames(host)

\* the contexts and the switch of network m on host h
ContextsOf(h, m) == {n \in h.ns : \E s \in world.subnets : n.name = ns_name(m, s)}
SwitchOf(h, m) == {b \in h.br : b.name = bridge_name(m)}

\* C19: delete-network frame: no step of delete-network(n) changes a context
\* or the switch of another network m, whatever the two names are.
C19_DeleteLeavesOtherNetworks ==
    [][\A p \in Procs :
        (Running(pc[p]) /\ Operation(pc[p]) = "delete_vpc") =>
            \A m \in world.vpcs \ {argv[p].delete_vpc} :
                /\ ContextsOf(host', m) = ContextsOf(host, m)
                /\ SwitchOf(host', m) = SwitchOf(host, m)]_vars

\* the networks a device or context name can belong to, by the tool's naming
OwnersOfContext(name) ==
    {v \in world.vpcs : \E s \in world.subnets : name = ns_name(v, s)}
OwnersOfEnd(name) ==
    {v \in world.vpcs :
        \/ \E s \in world.subnets :
               name \in {veth_host_name(ns_name(v, s)), veth_ns_name(ns_name(v, s))}
        \/ \E w \in world.vpcs : name \in {peer0_name(v, w), peer1_name(w, v)}}

\* C20: referential integrity: on every host the invocations lead to, those
\* that ended in a fatal error included, every context named
\* {network}-{subnet} and every cable end the tool names has an existing
\* switch for (one of) the network(s) its name gives it.
C20_NoOrphans ==
    /\ \A n \in host.ns :
           OwnersOfContext(n.name) # {} =>
               \E v \in OwnersOfContext(n.name) : bridge_name(v) \in BridgeNames(host)
    /\ \A e \in Ends(host) :
           OwnersOfEnd(e.name) # {} =>
               \E v \in OwnersOfEnd(e.name) : bridge_name(v) \in BridgeNames(host)

====
